---- MODULE Spec2Model ----
(***************************************************************************)
(* AntClock (src/clock.py): the CurvatureClockWalker, its summary and      *)
(* symmetry analyses, the branch-corridor analysis and the Betti lookup;   *)
(* and the self-managing HTTP server (src/scripts/self_managing_server.py):*)
(* its serve loop, signal handler and monitor thread.                      *)
(*                                                                         *)
(* Python floats are carried as fixed-point integers in units of 1/SCALE   *)
(* (milli-units): 0.638 is 638, math.log, math.cos, math.sin and np.std    *)
(* are computed by integer series to that resolution.  float('inf') is the *)
(* value INF.  Python dicts are records; a key that the code does not set  *)
(* is a field the record does not have.                                    *)
(***************************************************************************)
EXTENDS Integers, Sequences, FiniteSets, TLC

\* ---------------------------------------------------------------- bounds
\* x_0 ranges over -X0Lo .. X0Hi
X0Lo == 3
X0Hi == 3
\* at most MaxSteps single steps are taken on one walker
MaxSteps == 8
\* evolve is called with n in -MaxNegSteps .. MaxSteps
MaxNegSteps == 1
\* at most MaxSignals termination signals reach the server process
MaxSignals == 1
\* compute_enhanced_betti_numbers is called with n in -MaxNegShell .. MaxShell
MaxNegShell == 2
MaxShell == 14

\* ------------------------------------------------------ fixed-point reals
SCALE == 10^3
\* 1e6 * ln 2, the constant behind math.log
LN2_MICRO == 693147
\* 1e3 * 2 * pi
TWO_PI == 6283
PI == TWO_PI \div 2
HALF_PI == TWO_PI \div 4
\* float('inf'), the value compute_bifurcation_index returns at the critical point
INF == -1

Abs(a) == IF a < 0 THEN -a ELSE a

RECURSIVE Log2Floor(_)
Log2Floor(m) == IF m < 2 THEN 0 ELSE 1 + Log2Floor(m \div 2)

\* math.log(m) for an integer m >= 1, in milli-units:
\* m = 2^e * y with 1 <= y < 2, ln m = e ln 2 + 2 atanh((y-1)/(y+1))
Ln(m) ==
    LET e  == Log2Floor(m)
        p  == 2^e
        z  == ((m - p) * SCALE) \div (m + p)
        z2 == (z * z) \div SCALE
        z3 == (z * z2) \div SCALE
        z5 == (z3 * z2) \div SCALE
        z7 == (z5 * z2) \div SCALE
    IN  (e * LN2_MICRO) \div SCALE + 2 * (z + z3 \div 3 + z5 \div 5 + z7 \div 7)

\* cos and sin on [0, pi/2] by their Taylor series, in milli-units
CosQ(t) ==
    LET t2 == (t * t) \div SCALE
        t4 == (t2 * t2) \div SCALE
        t6 == (t4 * t2) \div SCALE
        t8 == (t6 * t2) \div SCALE
    IN  SCALE - t2 \div 2 + t4 \div 24 - t6 \div 720 + t8 \div 40320

SinQ(t) ==
    LET t2 == (t * t) \div SCALE
        t3 == (t * t2) \div SCALE
        t5 == (t3 * t2) \div SCALE
        t7 == (t5 * t2) \div SCALE
    IN  t - t3 \div 6 + t5 \div 120 - t7 \div 5040

\* math.cos(angle), math.sin(angle)
Cos(angle) ==
    LET t == angle % TWO_PI
    IN  IF t <= HALF_PI THEN CosQ(t)
        ELSE IF t <= PI THEN -CosQ(PI - t)
        ELSE IF t <= PI + HALF_PI THEN -CosQ(t - PI)
        ELSE CosQ(TWO_PI - t)

Sin(angle) ==
    LET t == angle % TWO_PI
    IN  IF t <= HALF_PI THEN SinQ(t)
        ELSE IF t <= PI THEN SinQ(PI - t)
        ELSE IF t <= PI + HALF_PI THEN -SinQ(t - PI)
        ELSE -SinQ(TWO_PI - t)

\* floor of the square root of v >= 0, by bisection on lo <= sqrt(v) < hi
RECURSIVE SqrtBetween(_, _, _)
SqrtBetween(v, lo, hi) ==
    IF hi - lo <= 1 THEN lo
    ELSE LET mid == (lo + hi) \div 2
         IN  IF mid * mid <= v THEN SqrtBetween(v, mid, hi)
             ELSE SqrtBetween(v, lo, mid)

Sqrt(v) == SqrtBetween(v, 0, 40000)

\* ---------------------------------------------------- sequence helpers
RECURSIVE SumSeq(_)
SumSeq(s) == IF s = <<>> THEN 0 ELSE Head(s) + SumSeq(Tail(s))

RECURSIVE MaxSeq(_)
MaxSeq(s) ==
    IF Len(s) = 1 THEN s[1]
    ELSE LET m == MaxSeq(Tail(s)) IN IF s[1] >= m THEN s[1] ELSE m

RECURSIVE MinSeq(_)
MinSeq(s) ==
    IF Len(s) = 1 THEN s[1]
    ELSE LET m == MinSeq(Tail(s)) IN IF s[1] <= m THEN s[1] ELSE m

Count(s, v) == Cardinality({i \in 1..Len(s) : s[i] = v})

\* np.mean of a sequence of milli-unit values
Mean(s) == SumSeq(s) \div Len(s)

\* np.std: the square root of the mean squared deviation from the mean
Std(s) ==
    LET m == Mean(s)
        sq == [i \in 1..Len(s) |-> (s[i] - m) * (s[i] - m)]
    IN  Sqrt(SumSeq(sq) \div Len(s))

\* --------------------------------------------------- scalar observables
\* str(n) as a sequence of one-character strings
DigitChars == <<"0", "1", "2", "3", "4", "5", "6", "7", "8", "9">>

RECURSIVE StrNat(_)
StrNat(n) ==
    IF n < 10 THEN <<DigitChars[n + 1]>>
    ELSE StrNat(n \div 10) \o <<DigitChars[(n % 10) + 1]>>

str(n) == IF n < 0 THEN <<"-">> \o StrNat(-n) ELSE StrNat(n)

\* int(d) for a one-character string: defined on the ten digits, and a
\* ValueError on any other character
IntDefined(d) == \E k \in 0..9 : DigitChars[k + 1] = d
int(d) == CHOOSE k \in 0..9 : DigitChars[k + 1] = d

\* int(math.log10(abs(n))) + 1: the number of decimal digits of |n|, which
\* is what the float expression yields for every n the walker reaches here
get_digit_count(n) == IF n = 0 THEN 1 ELSE Len(StrNat(Abs(n)))

\* scipy.special.binom(k, c) for integers 0 <= c <= k
RECURSIVE binom(_, _)
binom(k, c) == IF c = 0 THEN 1 ELSE (binom(k, c - 1) * (k - c + 1)) \div c

r(k) ==
    IF k <= 0 THEN 0
    ELSE LET binom_val == binom(k, k \div 2)
         IN  IF binom_val > 0 THEN Ln(binom_val) ELSE 0

compute_pascal_curvature(n) ==
    IF n <= 0 THEN 0 ELSE r(n + 1) - 2 * r(n) + r(n - 1)

\* d * 7 mod 10 instead of d^7 mod 10
digit_mirror_times7(d) == (d * 7) % 10

\* pow(d, 7, 10)
digit_mirror_operator(d) == (d^7) % 10

get_mirror_phase(n) == n % 4

compute_nine_eleven_charge(n) ==
    IF n = 0 THEN 0
    ELSE LET chars == str(Abs(n))
             digits == [i \in 1..Len(chars) |-> int(chars[i])]
             n_nines == Count(digits, 9)
             n_zeros == Count(digits, 0)
         IN  (n_nines * SCALE) \div (n_zeros + 1)

\* ------------------------------------------------------- clock dynamics
compute_clock_rate(chi, n) ==
    LET curvature == compute_pascal_curvature(n)
        charge == compute_nine_eleven_charge(n)
    IN  (((chi * curvature) \div SCALE) * (SCALE + charge)) \div SCALE

\* c_star = 0.0 and delta_feg = 0.1 are the defaults, the only values the
\* walker calls it with; |c_t| < 1e-10 is c_t = 0 at this resolution, and
\* math.log of the real |c_t| is Ln(|c_t|) - Ln(SCALE)
\* -log|c_t| / log(delta_feg) is (Ln|c_t| - Ln(SCALE)) / Ln(10), floored.
compute_bifurcation_index(c_t) ==
    IF c_t = 0 THEN INF
    ELSE LET log_term == (Ln(Abs(c_t)) - Ln(SCALE)) \div Ln(10)
         IN  IF log_term > 0 THEN log_term ELSE 0

\* ---------------------------------------------------------------- walker
VARIABLES
    x_0,                \* self.x_0
    chi_feg,            \* self.chi_feg
    x,                  \* self.x
    clock_phase,        \* self.clock_phase
    bifurcation_index,  \* self.bifurcation_index
    history,            \* self.history, the list object the walker owns
    x_coords,           \* self.x_coords
    y_coords,           \* self.y_coords
    ret,                \* the last call and what it returned to the caller
    returned,           \* the history reference evolve last handed out:
                        \* whether the caller holds one, and the contents
                        \* the list had at the moment of that return
    requested,          \* the single steps the caller has asked for so far
    last_summary        \* the summaries computed since the last step: how
                        \* many (0, 1, or 2 for more), and the latest one

\* the self-managing server process (src/scripts/self_managing_server.py)
VARIABLES
    main_pc,            \* where the main thread is in main() / serve_forever
    handler_pc,         \* where signal_handler is, when its frame lies on
                        \* top of the main thread's ("none" otherwise)
    monitor_pc,         \* where the monitor thread is in monitor_activity
    pid_file,           \* whether the file at self.pid_file exists
    timeout_seconds,    \* self.timeout_seconds
    inactive_time,      \* time.time() - self.last_activity, in seconds,
                        \* kept up to the first value above the timeout
    should_shutdown,    \* self.should_shutdown
    shutdown_request,   \* BaseServer.__shutdown_request
    is_shut_down,       \* BaseServer.__is_shut_down, a threading.Event
    sleep_left,         \* seconds until the monitor's time.sleep returns
    signals             \* SIGTERM / SIGINT delivered so far

vars == <<x_0, chi_feg, x, clock_phase, bifurcation_index, history,
          x_coords, y_coords, ret, returned, requested, last_summary,
          main_pc, handler_pc, monitor_pc, pid_file, timeout_seconds,
          inactive_time, should_shutdown, shutdown_request, is_shut_down,
          sleep_left, signals>>

server_vars == <<main_pc, handler_pc, monitor_pc, pid_file, timeout_seconds,
                 inactive_time, should_shutdown, shutdown_request,
                 is_shut_down, sleep_left, signals>>

caller_vars == <<returned, requested, last_summary>>

walker_vars == <<x_0, chi_feg, x, clock_phase, bifurcation_index, history,
                 x_coords, y_coords>>

\* the coupling constants walkers are constructed with: the default 0.638,
\* and 25.0, large enough for a corridor's phase to wind past 2 pi
CHI_FEG_DEFAULT == 638
ChiValues == {CHI_FEG_DEFAULT, 25 * SCALE}

\* the walker object as one value
Self == [x |-> x, clock_phase |-> clock_phase,
         bifurcation_index |-> bifurcation_index, history |-> history,
         x_coords |-> x_coords, y_coords |-> y_coords]

\* _initialize_state numbering the first record 1 instead of 0
initialize_state_step1(self) ==
    [self EXCEPT
        !.history = << [step |-> 1,
                        x |-> self.x,
                        digit_shell |-> get_digit_count(self.x),
                        curvature |-> compute_pascal_curvature(self.x),
                        mirror_phase |-> get_mirror_phase(self.x),
                        clock_phase |-> self.clock_phase,
                        bifurcation_index |-> self.bifurcation_index,
                        nine_eleven_charge |->
                            compute_nine_eleven_charge(self.x)] >>,
        !.x_coords = <<0>>,
        !.y_coords = <<0>>]

\* _initialize_state: the step-0 record (no clock_rate key) and geometry
initialize_state(self) ==
    [self EXCEPT
        !.history = << [step |-> 0,
                        x |-> self.x,
                        digit_shell |-> get_digit_count(self.x),
                        curvature |-> compute_pascal_curvature(self.x),
                        mirror_phase |-> get_mirror_phase(self.x),
                        clock_phase |-> self.clock_phase,
                        bifurcation_index |-> self.bifurcation_index,
                        nine_eleven_charge |->
                            compute_nine_eleven_charge(self.x)] >>,
        !.x_coords = <<0>>,
        !.y_coords = <<0>>]

\* __init__(x_0, chi_feg)
init(start) ==
    initialize_state([x |-> start, clock_phase |-> 0, bifurcation_index |-> 0,
                      history |-> <<>>, x_coords |-> <<>>, y_coords |-> <<>>])

\* evolve_step on the walker `self` with coupling chi: the walker after the
\* call; the record it returns is the last one of the new history
evolve_step(self, chi) ==
    LET new_x == self.x + 1
        digit_shell == get_digit_count(new_x)
        curvature == compute_pascal_curvature(new_x)
        mirror_phase == get_mirror_phase(new_x)
        nine_eleven_charge == compute_nine_eleven_charge(new_x)
        clock_rate == compute_clock_rate(chi, new_x)
        new_phase == self.clock_phase + clock_rate
        new_bif == compute_bifurcation_index(curvature)
        angle == new_phase
        radius == digit_shell * (SCALE \div 10)
        x_coord == (radius * Cos(angle)) \div SCALE
        y_coord == (radius * Sin(angle)) \div SCALE
        state == [step |-> Len(self.history),
                  x |-> new_x,
                  digit_shell |-> digit_shell,
                  curvature |-> curvature,
                  mirror_phase |-> mirror_phase,
                  clock_phase |-> new_phase,
                  bifurcation_index |-> new_bif,
                  nine_eleven_charge |-> nine_eleven_charge,
                  clock_rate |-> clock_rate]
    IN  [x |-> new_x,
         clock_phase |-> new_phase,
         bifurcation_index |-> new_bif,
         history |-> Append(self.history, state),
         x_coords |-> Append(self.x_coords, x_coord),
         y_coords |-> Append(self.y_coords, y_coord)]

\* get_geometry dropping the origin, as x_coords[1:] would
get_geometry_skip_origin(self) == <<Tail(self.x_coords), Tail(self.y_coords)>>

\* get_geometry: the two coordinate lists
get_geometry(self) == <<self.x_coords, self.y_coords>>

\* range(n_steps + 1): one iteration too many
range_len_inclusive(n_steps) == IF n_steps >= 0 THEN n_steps + 1 ELSE 0

\* range(n_steps): the number of iterations of `for _ in range(n_steps)`
range_len(n_steps) == IF n_steps > 0 THEN n_steps ELSE 0

\* the loop of evolve: evolve_step called k times in order
RECURSIVE evolve_loop(_, _, _)
evolve_loop(self, chi, k) ==
    IF k = 0 THEN self ELSE evolve_loop(evolve_step(self, chi), chi, k - 1)

\* ----------------------------------------------------------- analyses
\* selecting every odd residue instead of 3 mod 4
IsMirrorOdd(h) == h.mirror_phase % 2 = 1

\* h['mirror_phase'] == 3
IsMirror(h) == h.mirror_phase = 3

\* max() and np.mean over bifurcation indices, where float('inf') absorbs
MaxBifurcation(s) ==
    IF \E i \in 1..Len(s) : s[i] = INF THEN INF ELSE MaxSeq(s)

MeanBifurcation(s) ==
    IF \E i \in 1..Len(s) : s[i] = INF THEN INF
    ELSE Mean([i \in 1..Len(s) |-> s[i] * SCALE])

\* compute_summary_statistics, as a function of self.history
compute_summary_statistics(hist) ==
    IF hist = <<>> THEN <<>>
    ELSE
    LET curvatures == [i \in 1..Len(hist) |-> hist[i].curvature]
        bifurcation_indices == [i \in 1..Len(hist) |-> hist[i].bifurcation_index]
        charges == [i \in 1..Len(hist) |-> hist[i].nine_eleven_charge]
        shells == [i \in 1..Len(hist) |-> hist[i].digit_shell]
        mirror_shells == SelectSeq(hist, IsMirror)
    IN  [total_steps |-> Len(hist),
         final_position |-> hist[Len(hist)].x,
         max_digit_shell |-> MaxSeq(shells),
         mean_curvature |-> Mean(curvatures),
         std_curvature |-> Std(curvatures),
         max_bifurcation_index |-> MaxBifurcation(bifurcation_indices),
         mean_bifurcation_index |-> MeanBifurcation(bifurcation_indices),
         mirror_shells_count |-> Len(mirror_shells),
         mean_nine_eleven_charge |-> Mean(charges),
         final_clock_phase |-> hist[Len(hist)].clock_phase,
         mirror_shell_positions |->
             [i \in 1..Len(mirror_shells) |-> mirror_shells[i].x]]

\* analyze_mirror_symmetry raises ValueError when int(d) meets a character
\* of str(x) that is no digit
mirror_symmetry_raises(hist) ==
    LET mirror_states == SelectSeq(hist, IsMirror)
    IN  \E i \in 1..Len(mirror_states) :
            \E j \in 1..Len(str(mirror_states[i].x)) :
                ~IntDefined(str(mirror_states[i].x)[j])

\* analyze_mirror_symmetry counting the positions whose digits equal their
\* mirror (`==` for `!=` at the comparison)
analyze_mirror_symmetry_counting_fixed(hist) ==
    LET mirror_states == SelectSeq(hist, IsMirror)
        Breaks(state) ==
            LET chars == str(state.x)
                digits == [j \in 1..Len(chars) |-> int(chars[j])]
                mirrored_digits ==
                    [j \in 1..Len(digits) |-> digit_mirror_operator(digits[j])]
            IN  digits = mirrored_digits
        symmetry_breaks ==
            Cardinality({i \in 1..Len(mirror_states) : Breaks(mirror_states[i])})
    IN  IF mirror_states = <<>>
        THEN [mirror_symmetry_ratio |-> 0, mirror_positions |-> <<>>]
        ELSE [mirror_symmetry_ratio |->
                  (symmetry_breaks * SCALE) \div Len(mirror_states),
              total_mirror_states |-> Len(mirror_states),
              symmetry_breaking_events |-> symmetry_breaks,
              mirror_positions |->
                  [i \in 1..Len(mirror_states) |-> mirror_states[i].x]]

\* analyze_mirror_symmetry, as a function of self.history, when it returns
analyze_mirror_symmetry(hist) ==
    LET mirror_states == SelectSeq(hist, IsMirror)
        Breaks(state) ==
            LET chars == str(state.x)
                digits == [j \in 1..Len(chars) |-> int(chars[j])]
                mirrored_digits ==
                    [j \in 1..Len(digits) |-> digit_mirror_operator(digits[j])]
            IN  digits # mirrored_digits
        symmetry_breaks ==
            Cardinality({i \in 1..Len(mirror_states) : Breaks(mirror_states[i])})
    IN  IF mirror_states = <<>>
        THEN [mirror_symmetry_ratio |-> 0, mirror_positions |-> <<>>]
        ELSE [mirror_symmetry_ratio |->
                  (symmetry_breaks * SCALE) \div Len(mirror_states),
              total_mirror_states |-> Len(mirror_states),
              symmetry_breaking_events |-> symmetry_breaks,
              mirror_positions |->
                  [i \in 1..Len(mirror_states) |-> mirror_states[i].x]]

\* the lookup without its special case for shell 7
betti_numbers_no_mirror_shell(n) ==
    IF n <= 0 THEN <<1>>
    ELSE IF n = 1 THEN <<1, 0>>
    ELSE <<1, n \div 3, n \div 7>>

compute_enhanced_betti_numbers(n) ==
    IF n <= 0 THEN <<1>>
    ELSE IF n = 1 THEN <<1, 0>>
    ELSE IF n = 7 THEN <<1, 3, 1>>
    ELSE LET components == 1
             holes == IF n \div 3 > 0 THEN n \div 3 ELSE 0
             voids == IF n \div 7 > 0 THEN n \div 7 ELSE 0
         IN  <<components, holes, voids>>

\* a corridor that takes its records from start <= x <= end, the two
\* distinguished positions included
corridor_info_closed(hist, start, end) ==
    LET Inside(h) == start <= h.x /\ h.x <= end
        corridor_states == SelectSeq(hist, Inside)
        curvatures ==
            [j \in 1..Len(corridor_states) |-> corridor_states[j].curvature]
        curvature_range ==
            IF curvatures # <<>> THEN MaxSeq(curvatures) - MinSeq(curvatures)
            ELSE 0
        phase_changes ==
            SumSeq([j \in 1..(Len(corridor_states) - 1) |->
                       Abs(corridor_states[j + 1].clock_phase
                           - corridor_states[j].clock_phase)])
    IN  [start_shell |-> start,
         end_shell |-> end,
         length |-> end - start,
         curvature_range |-> curvature_range,
         phase_accumulation |-> phase_changes,
         has_branch_cut |-> phase_changes > TWO_PI]

\* a corridor whose phase loop lacks `if j > 0`, so that corridor_states[-1]
\* wraps around and the step from the last record to the first is added
corridor_info_wrapping(hist, start, end) ==
    LET Inside(h) == start < h.x /\ h.x < end
        corridor_states == SelectSeq(hist, Inside)
        curvatures ==
            [j \in 1..Len(corridor_states) |-> corridor_states[j].curvature]
        curvature_range ==
            IF curvatures # <<>> THEN MaxSeq(curvatures) - MinSeq(curvatures)
            ELSE 0
        phase_changes ==
            SumSeq([j \in 1..Len(corridor_states) |->
                       Abs(corridor_states[j].clock_phase
                           - corridor_states[IF j = 1 THEN Len(corridor_states)
                                             ELSE j - 1].clock_phase)])
    IN  [start_shell |-> start,
         end_shell |-> end,
         length |-> end - start,
         curvature_range |-> curvature_range,
         phase_accumulation |-> phase_changes,
         has_branch_cut |-> phase_changes > TWO_PI]

\* one corridor of analyze_branch_corridors, between start and end
corridor_info(hist, start, end) ==
    LET Inside(h) == start < h.x /\ h.x < end
        corridor_states == SelectSeq(hist, Inside)
        curvatures ==
            [j \in 1..Len(corridor_states) |-> corridor_states[j].curvature]
        curvature_range ==
            IF curvatures # <<>> THEN MaxSeq(curvatures) - MinSeq(curvatures)
            ELSE 0
        phase_changes ==
            SumSeq([j \in 1..(Len(corridor_states) - 1) |->
                       Abs(corridor_states[j + 1].clock_phase
                           - corridor_states[j].clock_phase)])
    IN  [start_shell |-> start,
         end_shell |-> end,
         length |-> end - start,
         curvature_range |-> curvature_range,
         phase_accumulation |-> phase_changes,
         has_branch_cut |-> phase_changes > TWO_PI]

analyze_branch_corridors(hist) ==
    LET mirror_states == SelectSeq(hist, IsMirror)
        mirror_positions == [i \in 1..Len(mirror_states) |-> mirror_states[i].x]
        corridors ==
            [i \in 1..(Len(mirror_positions) - 1) |->
                corridor_info(hist, mirror_positions[i], mirror_positions[i + 1])]
    IN  IF Len(mirror_positions) < 2
        THEN [corridors |-> <<>>, monodromy_detected |-> FALSE]
        ELSE [corridors |-> corridors,
              monodromy_detected |->
                  \E i \in 1..Len(corridors) : corridors[i].has_branch_cut,
              total_corridors |-> Len(corridors)]

\* --------------------------------------------------------------- actions
\* no server process has been started
NoServer ==
    /\ main_pc = "not_started"
    /\ handler_pc = "none"
    /\ monitor_pc = "not_started"
    /\ pid_file = FALSE
    /\ timeout_seconds = 0
    /\ inactive_time = 0
    /\ should_shutdown = FALSE
    /\ shutdown_request = FALSE
    /\ is_shut_down = FALSE
    /\ sleep_left = 0
    /\ signals = 0

\* CurvatureClockWalker(x_0, chi_feg)
Init ==
    /\ \E start \in (-X0Lo)..X0Hi, chi \in ChiValues :
        LET self == init(start)
        IN  /\ x_0 = start
            /\ chi_feg = chi
            /\ x = self.x
            /\ clock_phase = self.clock_phase
            /\ bifurcation_index = self.bifurcation_index
            /\ history = self.history
            /\ x_coords = self.x_coords
            /\ y_coords = self.y_coords
            /\ ret = [op |-> "__init__"]
            /\ returned = [ref |-> "none", at_return |-> <<>>]
            /\ requested = 0
            /\ last_summary = [calls |-> 0, value |-> <<>>]
    /\ NoServer

\* the walker's fields after a call that leaves it as `self`
Becomes(self) ==
    /\ x' = self.x
    /\ clock_phase' = self.clock_phase
    /\ bifurcation_index' = self.bifurcation_index
    /\ history' = self.history
    /\ x_coords' = self.x_coords
    /\ y_coords' = self.y_coords
    /\ UNCHANGED <<x_0, chi_feg>>

\* counting the summaries since the last step: 0, 1, many
OneMore(calls) == IF calls = 0 THEN 1 ELSE 2

\* the list a reference denotes now: evolve hands out self.history itself
Deref(ref) == IF ref = "self.history" THEN history ELSE <<>>

\* evolve_step building its record before `self.clock_phase += clock_rate`,
\* so that the record carries the phase of the step before
EvolveStepStalePhase ==
    /\ Len(history) - 1 < MaxSteps
    /\ \E self \in {evolve_step(Self, chi_feg)} :
       \E stale \in {[self.history[Len(self.history)]
                         EXCEPT !.clock_phase = clock_phase]} :
           /\ Becomes([self EXCEPT !.history = Append(history, stale)])
           /\ ret' = [op |-> "evolve_step", raised |-> "none",
                      value |-> stale]
    /\ requested' = requested + 1
    /\ last_summary' = [calls |-> 0, value |-> <<>>]
    /\ UNCHANGED returned

\* walker.evolve_step()
EvolveStep ==
    /\ Len(history) - 1 < MaxSteps
    /\ \E self \in {evolve_step(Self, chi_feg)} :
           /\ Becomes(self)
           /\ ret' = [op |-> "evolve_step", raised |-> "none",
                      value |-> self.history[Len(self.history)]]
    /\ requested' = requested + 1
    /\ last_summary' = [calls |-> 0, value |-> <<>>]
    /\ UNCHANGED returned

\* walker.evolve(n_steps): the loop, then the summary, then the return of
\* (self.history, summary)
Evolve(n_steps) ==
    /\ Len(history) - 1 + range_len(n_steps) <= MaxSteps
    /\ \E self \in {evolve_loop(Self, chi_feg, range_len(n_steps))} :
       \E summary \in {compute_summary_statistics(self.history)} :
           /\ Becomes(self)
           /\ ret' = [op |-> "evolve", n_steps |-> n_steps, raised |-> "none",
                      history |-> "self.history", summary |-> summary]
           /\ returned' = [ref |-> "self.history", at_return |-> self.history]
           /\ requested' = requested + (IF n_steps >= 0 THEN n_steps ELSE 0)
           /\ last_summary' =
                  [calls |-> IF range_len(n_steps) > 0 THEN 1
                             ELSE OneMore(last_summary.calls),
                   value |-> summary]

\* a summary that first rewrites the infinite bifurcation indices of
\* self.history to 0, so that its mean is finite
ComputeSummaryStatisticsNormalising ==
    LET normal == [i \in 1..Len(history) |->
                      IF history[i].bifurcation_index = INF
                      THEN [history[i] EXCEPT !.bifurcation_index = 0]
                      ELSE history[i]]
    IN  /\ history' = normal
        /\ \E summary \in {compute_summary_statistics(normal)} :
               /\ ret' = [op |-> "compute_summary_statistics",
                          raised |-> "none", value |-> summary]
               /\ last_summary' = [calls |-> OneMore(last_summary.calls),
                                   value |-> summary]
        /\ UNCHANGED <<x_0, chi_feg, x, clock_phase, bifurcation_index,
                       x_coords, y_coords, returned, requested>>

\* walker.compute_summary_statistics()
ComputeSummaryStatistics ==
    /\ \E summary \in {compute_summary_statistics(history)} :
           /\ ret' = [op |-> "compute_summary_statistics", raised |-> "none",
                      value |-> summary]
           /\ last_summary' = [calls |-> OneMore(last_summary.calls),
                               value |-> summary]
    /\ UNCHANGED <<walker_vars, returned, requested>>

\* walker.get_geometry()
GetGeometry ==
    /\ ret' = [op |-> "get_geometry", raised |-> "none",
               value |-> get_geometry(Self)]
    /\ UNCHANGED <<walker_vars, caller_vars>>

\* walker.analyze_mirror_symmetry()
AnalyzeMirrorSymmetry ==
    /\ ret' = IF mirror_symmetry_raises(history)
              THEN [op |-> "analyze_mirror_symmetry", raised |-> "ValueError"]
              ELSE [op |-> "analyze_mirror_symmetry", raised |-> "none",
                    value |-> analyze_mirror_symmetry(history)]
    /\ UNCHANGED <<walker_vars, caller_vars>>

\* analyze_branch_corridors(history[:j]) on a prefix of the walker's history
AnalyzeBranchCorridors(j) ==
    /\ j <= Len(history)
    /\ \E arg \in {SubSeq(history, 1, j)} :
           ret' = [op |-> "analyze_branch_corridors", raised |-> "none",
                   arg |-> arg, value |-> analyze_branch_corridors(arg)]
    /\ UNCHANGED <<walker_vars, caller_vars>>

\* compute_enhanced_betti_numbers(n)
ComputeEnhancedBettiNumbers(n) ==
    /\ ret' = [op |-> "compute_enhanced_betti_numbers", raised |-> "none",
               arg |-> n, value |-> compute_enhanced_betti_numbers(n)]
    /\ UNCHANGED <<walker_vars, caller_vars>>

\* CurvatureClockWalker.digit_mirror_operator(d)
DigitMirrorOperator(d) ==
    /\ ret' = [op |-> "digit_mirror_operator", raised |-> "none",
               arg |-> d, value |-> digit_mirror_operator(d)]
    /\ UNCHANGED <<walker_vars, caller_vars>>

\* the calls a caller makes on a walker; no server runs beside them
Next ==
    /\ \/ EvolveStep
       \/ \E n_steps \in (-MaxNegSteps)..MaxSteps : Evolve(n_steps)
       \/ ComputeSummaryStatistics
       \/ GetGeometry
       \/ AnalyzeMirrorSymmetry
       \/ \E j \in 0..(MaxSteps + 1) : AnalyzeBranchCorridors(j)
    /\ UNCHANGED server_vars

\* the walker and the analyses of its history
Spec == Init /\ [][Next]_vars

\* the module's pure functions, called beside a walker that is left alone
NextPure ==
    /\ \/ \E n \in (-MaxNegShell)..MaxShell : ComputeEnhancedBettiNumbers(n)
       \/ \E d \in 0..9 : DigitMirrorOperator(d)
    /\ UNCHANGED server_vars

SpecPure == Init /\ [][NextPure]_vars

\* ---------------------------------------------------------------- server
\* check_interval of monitor_activity, in seconds
CHECK_INTERVAL == 30

\* the model's clock advances in steps of half a check interval
TimeStep == CHECK_INTERVAL \div 2

\* the <timeout_seconds> arguments the server is started with: shorter and
\* longer than the check interval
TimeoutValues == {CHECK_INTERVAL \div 2, 2 * CHECK_INTERVAL}

\* main() up to the call of serve_forever: SelfManagingHTTPServer(...) has
\* written the PID file, installed signal_handler for SIGTERM and SIGINT
\* and started the monitor thread; beside it, a walker left alone
InitServer ==
    /\ LET self == init(1)
       IN  /\ x_0 = 1
           /\ chi_feg = CHI_FEG_DEFAULT
           /\ x = self.x
           /\ clock_phase = self.clock_phase
           /\ bifurcation_index = self.bifurcation_index
           /\ history = self.history
           /\ x_coords = self.x_coords
           /\ y_coords = self.y_coords
           /\ ret = [op |-> "__init__"]
           /\ returned = [ref |-> "none", at_return |-> <<>>]
           /\ requested = 0
           /\ last_summary = [calls |-> 0, value |-> <<>>]
    /\ main_pc = "start"
    /\ handler_pc = "none"
    /\ monitor_pc = "loop_test"
    /\ pid_file = TRUE
    /\ timeout_seconds \in TimeoutValues
    /\ inactive_time = 0
    /\ should_shutdown = FALSE
    /\ shutdown_request = FALSE
    /\ is_shut_down = FALSE
    /\ sleep_left = 0
    /\ signals = 0

\* the process is alive: main() has not returned
Alive == main_pc \notin {"not_started", "done"}

\* the main thread runs its own frame: no signal handler lies on top of it
MainRuns == Alive /\ handler_pc = "none"

\* serve_forever is entered: self.__is_shut_down.clear()
ServeForeverEnter ==
    /\ MainRuns
    /\ main_pc = "start"
    /\ is_shut_down' = FALSE
    /\ main_pc' = "serve_test"
    /\ UNCHANGED <<handler_pc, monitor_pc, pid_file, timeout_seconds,
                   inactive_time, should_shutdown, shutdown_request,
                   sleep_left, signals>>

\* `while not self.__shutdown_request:` of serve_forever
ServeTest ==
    /\ MainRuns
    /\ main_pc = "serve_test"
    /\ main_pc' = IF shutdown_request THEN "serve_finally" ELSE "select"
    /\ UNCHANGED <<handler_pc, monitor_pc, pid_file, timeout_seconds,
                   inactive_time, should_shutdown, shutdown_request,
                   is_shut_down, sleep_left, signals>>

\* selector.select(poll_interval) returns, with a request ready or not: the
\* loop breaks if shutdown was requested meanwhile, else a ready request is
\* handled, whose log_message sets self.server.last_activity = time.time()
ServeSelect(ready) ==
    /\ MainRuns
    /\ main_pc = "select"
    /\ main_pc' = IF shutdown_request THEN "serve_finally" ELSE "serve_test"
    /\ inactive_time' = IF ~shutdown_request /\ ready THEN 0 ELSE inactive_time
    /\ UNCHANGED <<handler_pc, monitor_pc, pid_file, timeout_seconds,
                   should_shutdown, shutdown_request, is_shut_down,
                   sleep_left, signals>>

\* the finally of serve_forever: the request flag is reset, the event set
ServeFinally ==
    /\ MainRuns
    /\ main_pc = "serve_finally"
    /\ shutdown_request' = FALSE
    /\ is_shut_down' = TRUE
    /\ main_pc' = "cleanup"
    /\ UNCHANGED <<handler_pc, monitor_pc, pid_file, timeout_seconds,
                   inactive_time, should_shutdown, sleep_left, signals>>

\* the finally of main(): server.cleanup() removes the PID file if it
\* exists, then "Server shutdown complete" and the process ends
Cleanup ==
    /\ MainRuns
    /\ main_pc = "cleanup"
    /\ pid_file' = FALSE
    /\ main_pc' = "done"
    /\ UNCHANGED <<handler_pc, monitor_pc, timeout_seconds, inactive_time,
                   should_shutdown, shutdown_request, is_shut_down,
                   sleep_left, signals>>

\* SIGTERM or SIGINT is delivered: Python runs signal_handler in the main
\* thread, on top of whatever frame that thread is executing
DeliverSignal ==
    /\ MainRuns
    /\ signals < MaxSignals
    /\ signals' = signals + 1
    /\ handler_pc' = "flag"
    /\ UNCHANGED <<main_pc, monitor_pc, pid_file, timeout_seconds,
                   inactive_time, should_shutdown, shutdown_request,
                   is_shut_down, sleep_left>>

\* signal_handler: self.should_shutdown = True
HandlerSetFlag ==
    /\ handler_pc = "flag"
    /\ should_shutdown' = TRUE
    /\ handler_pc' = "shutdown"
    /\ UNCHANGED <<main_pc, monitor_pc, pid_file, timeout_seconds,
                   inactive_time, shutdown_request, is_shut_down,
                   sleep_left, signals>>

\* signal_handler: self.shutdown() sets self.__shutdown_request = True ...
HandlerShutdown ==
    /\ handler_pc = "shutdown"
    /\ shutdown_request' = TRUE
    /\ handler_pc' = "wait"
    /\ UNCHANGED <<main_pc, monitor_pc, pid_file, timeout_seconds,
                   inactive_time, should_shutdown, is_shut_down,
                   sleep_left, signals>>

\* ... and returns from self.__is_shut_down.wait() once the event is set;
\* the handler returns and the frame below it resumes
HandlerReturn ==
    /\ handler_pc = "wait"
    /\ is_shut_down
    /\ handler_pc' = "none"
    /\ UNCHANGED <<main_pc, monitor_pc, pid_file, timeout_seconds,
                   inactive_time, should_shutdown, shutdown_request,
                   is_shut_down, sleep_left, signals>>

\* monitor_activity: `while not self.should_shutdown:`, then
\* time.sleep(check_interval) begins
MonitorLoopTest ==
    /\ Alive
    /\ monitor_pc = "loop_test"
    /\ monitor_pc' = IF should_shutdown THEN "exited" ELSE "sleep"
    /\ sleep_left' = IF should_shutdown THEN sleep_left ELSE CHECK_INTERVAL
    /\ UNCHANGED <<main_pc, handler_pc, pid_file, timeout_seconds,
                   inactive_time, should_shutdown, shutdown_request,
                   is_shut_down, signals>>

\* time.sleep(check_interval) returns
MonitorWake ==
    /\ Alive
    /\ monitor_pc = "sleep"
    /\ sleep_left = 0
    /\ monitor_pc' = "check"
    /\ UNCHANGED <<main_pc, handler_pc, pid_file, timeout_seconds,
                   inactive_time, should_shutdown, shutdown_request,
                   is_shut_down, sleep_left, signals>>

\* the periodic check: the PID file is gone, or the server has been
\* inactive for more than timeout_seconds -> self.should_shutdown = True;
\* otherwise "Server healthy" and the loop goes round
MonitorCheck ==
    /\ Alive
    /\ monitor_pc = "check"
    /\ IF ~pid_file \/ inactive_time > timeout_seconds
       THEN /\ should_shutdown' = TRUE
            /\ monitor_pc' = "shutdown"
       ELSE /\ monitor_pc' = "loop_test"
            /\ UNCHANGED should_shutdown
    /\ UNCHANGED <<main_pc, handler_pc, pid_file, timeout_seconds,
                   inactive_time, shutdown_request, is_shut_down,
                   sleep_left, signals>>

\* the monitor's self.shutdown(): self.__shutdown_request = True ...
MonitorShutdown ==
    /\ Alive
    /\ monitor_pc = "shutdown"
    /\ shutdown_request' = TRUE
    /\ monitor_pc' = "wait"
    /\ UNCHANGED <<main_pc, handler_pc, pid_file, timeout_seconds,
                   inactive_time, should_shutdown, is_shut_down,
                   sleep_left, signals>>

\* ... and self.__is_shut_down.wait() returns; break
MonitorReturn ==
    /\ Alive
    /\ monitor_pc = "wait"
    /\ is_shut_down
    /\ monitor_pc' = "exited"
    /\ UNCHANGED <<main_pc, handler_pc, pid_file, timeout_seconds,
                   inactive_time, should_shutdown, shutdown_request,
                   is_shut_down, sleep_left, signals>>

\* someone outside the process deletes the PID file
DeletePidFile ==
    /\ Alive
    /\ pid_file
    /\ pid_file' = FALSE
    /\ UNCHANGED <<main_pc, handler_pc, monitor_pc, timeout_seconds,
                   inactive_time, should_shutdown, shutdown_request,
                   is_shut_down, sleep_left, signals>>

\* TimeStep seconds pass
Tick ==
    /\ Alive
    /\ inactive_time' = IF inactive_time > timeout_seconds THEN inactive_time
                        ELSE inactive_time + TimeStep
    /\ sleep_left' = IF sleep_left > TimeStep THEN sleep_left - TimeStep
                     ELSE 0
    /\ UNCHANGED <<main_pc, handler_pc, monitor_pc, pid_file, timeout_seconds,
                   should_shutdown, shutdown_request, is_shut_down, signals>>

\* the main thread: serve_forever and cleanup, or the handler on top of it
MainThread ==
    \/ ServeForeverEnter
    \/ ServeTest
    \/ \E ready \in BOOLEAN : ServeSelect(ready)
    \/ ServeFinally
    \/ Cleanup
    \/ HandlerSetFlag
    \/ HandlerShutdown
    \/ HandlerReturn

\* the daemon thread running monitor_activity
MonitorThread ==
    \/ MonitorLoopTest
    \/ MonitorWake
    \/ MonitorCheck
    \/ MonitorShutdown
    \/ MonitorReturn

NextServer ==
    /\ \/ MainThread
       \/ MonitorThread
       \/ DeliverSignal
       \/ DeletePidFile
       \/ Tick
    /\ UNCHANGED <<walker_vars, ret, caller_vars>>

\* the server process: both threads are scheduled again and again, and
\* time passes
SpecServer ==
    /\ InitServer
    /\ [][NextServer]_vars
    /\ WF_vars(MainThread /\ UNCHANGED <<walker_vars, ret, caller_vars>>)
    /\ WF_vars(MonitorThread /\ UNCHANGED <<walker_vars, ret, caller_vars>>)
    /\ WF_vars(Tick /\ UNCHANGED <<walker_vars, ret, caller_vars>>)

\* ---------------------------------------------------------------- claims

\* C1: every record i of the history has step = i and x = x_0 + i
\* (0-based), after construction and after any evolve_step / evolve calls.
HistoryStepsAndPositions ==
    \A i \in 1..Len(history) :
        /\ history[i].step = i - 1
        /\ history[i].x = x_0 + (i - 1)

HistoryStepsAndPositionsWitness ==
    /\ x_0 < 0
    /\ Len(history) >= 4
    /\ ret.op = "evolve"
    /\ requested > ret.n_steps

\* C2: the two coordinate sequences get_geometry returns are as long as
\* each other and as the history, and their pair at index 0 is (0, 0).
GeometryMatchesHistory ==
    LET geometry == get_geometry(Self)
    IN  /\ Len(geometry[1]) = Len(geometry[2])
        /\ Len(geometry[1]) = Len(history)
        /\ geometry[1][1] = 0 /\ geometry[2][1] = 0
        /\ ret.op = "get_geometry" =>
               /\ Len(ret.value[1]) = Len(history)
               /\ Len(ret.value[2]) = Len(history)
               /\ ret.value[1][1] = 0 /\ ret.value[2][1] = 0

GeometryMatchesHistoryWitness ==
    /\ ret.op = "get_geometry"
    /\ Len(history) >= 4
    /\ x_coords[Len(x_coords)] # 0

\* C3: evolve(n), n >= 0, extends the history by exactly n records and for
\* n = 0 leaves the walker as it was; when the steps asked for so far total
\* N, the history it returns has N + 1 records and its summary has
\* total_steps = N + 1 and final_position = x_0 + N.
EvolveTakesExactlyNSteps ==
    [][(ret'.op = "evolve" /\ ret'.n_steps >= 0) =>
          /\ Len(history') = Len(history) + ret'.n_steps
          /\ SubSeq(history', 1, Len(history)) = history
          /\ (ret'.n_steps = 0 => UNCHANGED walker_vars)
          /\ Len(returned'.at_return) = requested' + 1
          /\ ret'.summary.total_steps = requested' + 1
          /\ ret'.summary.final_position = x_0 + requested']_vars

EvolveTakesExactlyNStepsWitness ==
    /\ ret.op = "evolve"
    /\ ret.n_steps >= 2
    /\ requested > ret.n_steps
    /\ ret.summary.total_steps = requested + 1

\* C4: the trajectory evolve returned is a snapshot: later evolve_step and
\* evolve calls change neither its length nor its records.
ReturnedHistoryIsSnapshot ==
    returned.ref # "none" => Deref(returned.ref) = returned.at_return

\* C5: evolve with a negative step count fails with an input-validation
\* error instead of returning a trajectory and a summary, and leaves the
\* walker's position, clock phase, history and geometry unchanged.
EvolveNegativeFailsFast ==
    [][(ret'.op = "evolve" /\ ret'.n_steps < 0) =>
          /\ ret'.raised # "none"
          /\ UNCHANGED walker_vars]_vars

\* C6: with no record of mirror_phase 3 in the history, the report of
\* analyze_mirror_symmetry has ratio 0.0, an empty position list, and the
\* raw counts total_mirror_states = 0 and symmetry_breaking_events = 0.
EmptyMirrorReportCarriesCounts ==
    (/\ ret.op = "analyze_mirror_symmetry"
     /\ \A i \in 1..Len(history) : history[i].mirror_phase # 3) =>
        /\ ret.raised = "none"
        /\ ret.value.mirror_symmetry_ratio = 0
        /\ ret.value.mirror_positions = <<>>
        /\ "total_mirror_states" \in DOMAIN ret.value
        /\ "symmetry_breaking_events" \in DOMAIN ret.value
        /\ ret.value.total_mirror_states = 0
        /\ ret.value.symmetry_breaking_events = 0

\* C7: analyze_branch_corridors on a history with fewer than two records of
\* mirror_phase 3 (the empty history included) returns an empty corridor
\* list and monodromy_detected = False, without raising.
FewMirrorsNoCorridors ==
    (/\ ret.op = "analyze_branch_corridors"
     /\ Cardinality({i \in 1..Len(ret.arg) : ret.arg[i].mirror_phase = 3}) < 2) =>
        /\ ret.raised = "none"
        /\ ret.value.corridors = <<>>
        /\ ret.value.monodromy_detected = FALSE

FewMirrorsNoCorridorsWitness ==
    /\ ret.op = "analyze_branch_corridors"
    /\ Len(ret.arg) >= 3
    /\ Cardinality({i \in 1..Len(ret.arg) : ret.arg[i].mirror_phase = 3}) = 1
    /\ ret.value.corridors = <<>>

\* C8: on the digits 0..9, digit_mirror_operator is an involution whose
\* fixed points are exactly 0, 1, 4, 5, 6, 9 and which swaps 2 with 8 and
\* 3 with 7.
DigitMirrorIsInvolution ==
    [][ret'.op = "digit_mirror_operator" =>
          /\ ret'.value \in 0..9
          /\ (ret'.value = ret'.arg) <=> (ret'.arg \in {0, 1, 4, 5, 6, 9})
          /\ ret'.arg = 2 => ret'.value = 8
          /\ ret'.arg = 8 => ret'.value = 2
          /\ ret'.arg = 3 => ret'.value = 7
          /\ ret'.arg = 7 => ret'.value = 3
          /\ (ret.op = "digit_mirror_operator" /\ ret'.arg = ret.value) =>
                 ret'.value = ret.arg]_vars

DigitMirrorIsInvolutionWitness ==
    /\ ret.op = "digit_mirror_operator"
    /\ ret.arg = 8
    /\ ret.value = 2

\* C9: compute_enhanced_betti_numbers is [1] for shell <= 0, [1, 0] for
\* shell 1, [1, 3, 1] for shell 7 and [1, max(0, shell // 3),
\* max(0, shell // 7)] otherwise: a non-empty list of non-negative
\* integers that starts with 1.
BettiNumbersPiecewise ==
    ret.op = "compute_enhanced_betti_numbers" =>
        LET shell == ret.arg
            betti == ret.value
        IN  /\ ret.raised = "none"
            /\ shell <= 0 => betti = <<1>>
            /\ shell = 1 => betti = <<1, 0>>
            /\ shell = 7 => betti = <<1, 3, 1>>
            /\ (shell > 1 /\ shell # 7) =>
                   /\ Len(betti) = 3
                   /\ betti[1] = 1
                   /\ 3 * betti[2] <= shell /\ shell < 3 * betti[2] + 3
                   /\ 7 * betti[3] <= shell /\ shell < 7 * betti[3] + 7
            /\ Len(betti) >= 1
            /\ betti[1] = 1
            /\ \A k \in 1..Len(betti) : betti[k] >= 0

BettiNumbersPiecewiseWitness ==
    /\ ret.op = "compute_enhanced_betti_numbers"
    /\ ret.arg = 9
    /\ ret.value = <<1, 3, 1>>

\* C10: compute_summary_statistics leaves position, clock phase,
\* bifurcation index, history and geometry unchanged, and returns what the
\* previous summary returned when no step was taken in between.
SummaryIsReadOnlyAndRepeatable ==
    [][ret'.op = "compute_summary_statistics" =>
          /\ UNCHANGED walker_vars
          /\ last_summary.calls >= 1 => ret'.value = last_summary.value]_vars

SummaryIsReadOnlyAndRepeatableWitness ==
    /\ ret.op = "compute_summary_statistics"
    /\ last_summary.calls = 2
    /\ ret.value.max_bifurcation_index = INF
    /\ ret.value.total_steps >= 3

\* serve_forever is running in the main thread
Serving == main_pc \in {"serve_test", "select"} /\ handler_pc = "none"

\* main() has printed "Server shutdown complete" and no PID file is left
ShutdownComplete == main_pc = "done" /\ handler_pc = "none" /\ ~pid_file

\* C11: while the server is serving, once its PID file is deleted, or once
\* no request has arrived for longer than timeout_seconds and none arrives
\* before the monitor's next periodic check, the monitor requests shutdown,
\* serve_forever returns and cleanup leaves no PID file behind; and the
\* monitor requests shutdown only when it finds the PID file missing or the
\* inactivity above the timeout.
MonitorShutsDownWhenTripped ==
    /\ (Serving /\ ~pid_file) ~> ShutdownComplete
    /\ (Serving /\ inactive_time > timeout_seconds)
           ~> (ShutdownComplete \/ inactive_time <= timeout_seconds)
    /\ [][(monitor_pc = "check" /\ monitor_pc' = "shutdown") =>
             (~pid_file \/ inactive_time > timeout_seconds)]_vars

\* C12: when SIGTERM or SIGINT is delivered while serve_forever is running
\* in the main thread, the handler's shutdown request completes,
\* serve_forever returns, cleanup removes the PID file and the process
\* reaches "shutdown complete": the handler never waits forever for the
\* serve loop to stop.
SignalShutsDownGracefully ==
    (handler_pc = "flag" /\ main_pc \in {"serve_test", "select"})
        ~> ShutdownComplete

\* C13: the step-0 record has clock_phase 0 and no clock_rate field; every
\* later record has a clock_rate field and its clock_phase is the previous
\* record's clock_phase plus its own clock_rate, hence the sum of the clock
\* rates of records 1..i; the walker's clock_phase is the last record's.
ClockPhaseAccumulates ==
    /\ history[1].clock_phase = 0
    /\ "clock_rate" \notin DOMAIN history[1]
    /\ \A i \in 2..Len(history) :
           /\ "clock_rate" \in DOMAIN history[i]
           /\ history[i].clock_phase =
                  history[i - 1].clock_phase + history[i].clock_rate
           /\ history[i].clock_phase =
                  SumSeq([k \in 1..(i - 1) |-> history[k + 1].clock_rate])
    /\ clock_phase = history[Len(history)].clock_phase

ClockPhaseAccumulatesWitness ==
    /\ ret.op = "evolve_step"
    /\ Len(history) >= 4
    /\ history[Len(history)].clock_rate # 0
    /\ clock_phase > history[2].clock_phase

\* C14: in every record of the history, the step-0 record included and for
\* every x_0, bifurcation_index is the "at critical point" sentinel exactly
\* when the record's curvature is 0 (within 1e-10), and is otherwise a
\* non-negative integer.
BifurcationSentinelIffCritical ==
    \A i \in 1..Len(history) :
        /\ (history[i].bifurcation_index = INF) <=> (history[i].curvature = 0)
        /\ history[i].bifurcation_index # INF =>
               history[i].bifurcation_index \in Nat

PhaseAccumulationInsideCorridor ==
    LET hist == ret.arg
        at(pos) == CHOOSE h \in {hist[i] : i \in 1..Len(hist)} : h.x = pos
        inside_sum(c) ==
            SumSeq([n \in 1..(c.end_shell - c.start_shell - 2) |->
                       Abs(at(c.start_shell + n + 1).clock_phase
                           - at(c.start_shell + n).clock_phase)])
    IN  (/\ ret.op = "analyze_branch_corridors"
         /\ Cardinality({i \in 1..Len(hist) : hist[i].mirror_phase = 3}) >= 2) =>
            /\ \A j \in 1..Len(ret.value.corridors) :
                   LET c == ret.value.corridors[j]
                   IN  /\ c.phase_accumulation = inside_sum(c)
                       /\ c.has_branch_cut <=> (c.phase_accumulation > TWO_PI)
            /\ ret.value.monodromy_detected <=>
                   \E j \in 1..Len(ret.value.corridors) :
                       ret.value.corridors[j].has_branch_cut

PhaseAccumulationInsideCorridorWitness ==
    /\ ret.op = "analyze_branch_corridors"
    /\ Len(ret.value.corridors) = 2
    /\ ret.value.corridors[2].start_shell = 7
    /\ ret.value.corridors[2].phase_accumulation > TWO_PI
    /\ ret.value.corridors[2].has_branch_cut
    /\ ret.value.monodromy_detected

\* whether the decimal digits of n >= 0 include one of the set D
RECURSIVE ContainsDigit(_, _)
ContainsDigit(n, D) ==
    IF n < 10 THEN n \in D
    ELSE (n % 10) \in D \/ ContainsDigit(n \div 10, D)

\* C17: for a history over non-negative positions with at least one
\* distinguished position, analyze_mirror_symmetry reports mirror_positions
\* as the positions with x mod 4 = 3 in history order, total_mirror_states
\* as their count, symmetry_breaking_events as the number of them that
\* contain a digit in {2, 3, 7, 8}, and mirror_symmetry_ratio as
\* symmetry_breaking_events / total_mirror_states, with
\* 0 <= symmetry_breaking_events <= total_mirror_states.
MirrorSymmetryReport ==
    LET Distinguished(h) == h.x % 4 = 3
        marked == SelectSeq(history, Distinguished)
        positions == [i \in 1..Len(marked) |-> marked[i].x]
        breaking == {i \in 1..Len(positions) :
                        ContainsDigit(positions[i], {2, 3, 7, 8})}
    IN  (/\ ret.op = "analyze_mirror_symmetry"
         /\ \A i \in 1..Len(history) : history[i].x >= 0
         /\ marked # <<>>) =>
            /\ ret.raised = "none"
            /\ ret.value.mirror_positions = positions
            /\ ret.value.total_mirror_states = Len(positions)
            /\ ret.value.symmetry_breaking_events = Cardinality(breaking)
            /\ ret.value.mirror_symmetry_ratio =
                   (ret.value.symmetry_breaking_events * SCALE)
                       \div ret.value.total_mirror_states
            /\ 0 <= ret.value.symmetry_breaking_events
            /\ ret.value.symmetry_breaking_events
                   <= ret.value.total_mirror_states

MirrorSymmetryReportWitness ==
    /\ ret.op = "analyze_mirror_symmetry"
    /\ ret.raised = "none"
    /\ x_0 >= 0
    /\ ret.value.mirror_positions = <<3, 7, 11>>
    /\ ret.value.symmetry_breaking_events = 2

\* C18: for a walker constructed at any integer x_0, a negative one
\* included, and advanced any number of steps, analyze_mirror_symmetry
\* returns a report and never raises; a negative distinguished position is
\* decomposed into the digits of its absolute value.
MirrorSymmetryNeverRaises ==
    ret.op = "analyze_mirror_symmetry" =>
        /\ ret.raised = "none"
        /\ \A i \in 1..Len(ret.value.mirror_positions) :
               ret.value.mirror_positions[i] < 0 =>
                   ret.value.symmetry_breaking_events >=
                       (IF ContainsDigit(-ret.value.mirror_positions[i],
                                         {2, 3, 7, 8}) THEN 1 ELSE 0)

====
